---- MODULE Spec2Model ----
(***************************************************************************)
(* A model of rots (src/src/main.rs): the line classifier `parser`, the    *)
(* worker pool fed through a shared FIFO queue (`Queue::start`), and the   *)
(* single-threaded merge, sort and print of `main`.                        *)
(*                                                                         *)
(* Text is a sequence of one-character strings; a file's content is one    *)
(* such sequence, with "\n" as the line terminator.                        *)
(***************************************************************************)
EXTENDS Integers, Sequences, FiniteSets, TLC

VARIABLES
    cpus,      \* main: `cpus`, the value num_cpus::get() returned
    tree,      \* main: the WorkItems the `tree` iterator yields, in order
    walkerrs,  \* main: the errors of the walk the `tree` iterator has not met yet
    mpc,       \* main: position of the main thread
    spawned,   \* main: number of worker threads spawned so far
    pushed,    \* main: number of WorkItems pushed so far
    quits,     \* main: number of Work::Quit pushed so far
    joined,    \* main: number of threads the join loop is done with
    queue,     \* the FIFO `work` queue all Stealers share
    wpc,       \* per worker: position in Queue::start
    work,      \* per worker: the local `work` of the current iteration
    wresult,   \* per worker: the local `result` vector of Queue::start
    stderr,    \* the records written by err!, in order
    result,    \* main: the `result` vector of Details being merged
    sort,      \* main: the sort key bubble_sort ran with ("" before the sort)
    data,      \* main: the sorted rows handed to the printer
    dequeued,  \* history: per worker, the entries its steal() calls returned
    output,    \* the Output value the table is printed from
    pconfig,   \* parser: `config`, the Language of the file being classified
    pcontent,  \* parser: `content`, the text read from the file
    pidx,      \* parser: number of lines the 'line loop is done with
    pst,       \* parser: `blank`, `comment`, `code` and `in_comment`
    pleft,     \* history: `in_comment` when the parser call before this one returned
    fnum,      \* format_number: `num`
    ftext      \* format_number: the String returned (<<>> before the call)

\* the variables of one parser call
pvars == <<pconfig, pcontent, pidx, pst, pleft>>

\* the variables of one format_number call
fvars == <<fnum, ftext>>

vars == <<cpus, tree, walkerrs, mpc, spawned, pushed, quits, joined, queue, wpc, work,
          wresult, stderr, result, sort, data, dequeued, output, pvars, fvars>>

----------------------------------------------------------------------------
(* Bounds of the model *)

\* largest number of logical CPUs (worker threads) explored
MaxCpus == 2
\* largest number of WorkItems the discoverer yields in one run
MaxTree == 3

----------------------------------------------------------------------------
(* Text helpers: str::starts_with, str::ends_with, str::trim, str::lines *)

\* Option::None of `in_comment`; Some(pair) is the pair <<start, end>>
None == <<>>

\* char::is_whitespace, the characters str::trim strips: U+0009 to U+000D,
\* U+0020, U+0085, U+00A0 and U+1680. The remaining White_Space characters
\* (U+2000 to U+200A, U+2028, U+2029, U+202F, U+205F, U+3000) cannot be
\* written in a string of this module, so no text here contains them.
Whitespace == {"\t", "\n", "", "\f", "\r", " ", "", " ", " "}

starts_with(line, p) ==
    /\ Len(p) <= Len(line)
    /\ SubSeq(line, 1, Len(p)) = p

ends_with(line, s) ==
    /\ Len(s) <= Len(line)
    /\ SubSeq(line, Len(line) - Len(s) + 1, Len(line)) = s

RECURSIVE trim_start(_)
trim_start(s) ==
    IF s # <<>> /\ Head(s) \in Whitespace THEN trim_start(Tail(s)) ELSE s

RECURSIVE trim_end(_)
trim_end(s) ==
    IF s # <<>> /\ s[Len(s)] \in Whitespace
    THEN trim_end(SubSeq(s, 1, Len(s) - 1))
    ELSE s

trim(s) == trim_end(trim_start(s))

\* one line of str::lines: a trailing "\r" belongs to the terminator
StripCR(l) ==
    IF l # <<>> /\ l[Len(l)] = "\r" THEN SubSeq(l, 1, Len(l) - 1) ELSE l

\* str::lines: split at "\n"; a final line without terminator counts, an
\* empty remainder after the last terminator does not
RECURSIVE lines_from(_, _, _)
lines_from(content, i, cur) ==
    IF i > Len(content)
    THEN IF cur = <<>> THEN <<>> ELSE <<cur>>
    ELSE IF content[i] = "\n"
         THEN <<StripCR(cur)>> \o lines_from(content, i + 1, <<>>)
         ELSE lines_from(content, i + 1, Append(cur, content[i]))

lines(content) == lines_from(content, 1, <<>>)

----------------------------------------------------------------------------
(* The language table (src/src/config.rs): name, single markers, pairs *)

LangC ==
    [name |-> <<"C">>, single |-> << <<"/", "/">> >>,
     multi |-> << << <<"/", "*">>, <<"*", "/">> >> >>]

LangRuby ==
    [name |-> <<"R", "u", "b", "y">>, single |-> << <<"#">> >>,
     multi |-> << << <<"=">>, <<"=">> >> >>]

LangPython ==
    [name |-> <<"P", "y", "t", "h", "o", "n">>, single |-> << <<"#">> >>,
     multi |-> << << <<"'", "'", "'">>, <<"'", "'", "'">> >>,
                  << <<"\"", "\"", "\"">>, <<"\"", "\"", "\"">> >> >>]

LangJSON == [name |-> <<"J", "S", "O", "N">>, single |-> <<>>, multi |-> <<>>]

----------------------------------------------------------------------------
(* parser: the classification of one file's lines *)

\* variants of the loop over config.multi, each with one branch changed:
\*   "open_stays"     a pair opened on this line is never closed on it
\*   "forgets"        a pair that stays open is not carried to the next line
\*   "no_guard"       the length test of the opening line is left out
\*   "no_skip"        the other pairs are evaluated while a pair is open
\*   "start_ignored"  an open pair is not closed by a line starting with start
RECURSIVE match_multi_variant(_, _, _, _, _)
match_multi_variant(line, multi, k, in_comment, v) ==
    IF k > Len(multi) THEN [in_comment |-> in_comment, kind |-> "next"]
    ELSE
      LET start == multi[k][1]
          end   == multi[k][2]
      IN
      IF v # "no_skip" /\ in_comment # None /\ in_comment # multi[k]
      THEN match_multi_variant(line, multi, k + 1, in_comment, v)
      ELSE IF v # "start_ignored" /\ starts_with(line, start) /\ in_comment # None
      THEN [in_comment |-> None, kind |-> "comment"]
      ELSE
        LET same_line == starts_with(line, start) /\ in_comment = None
            opened    == IF same_line THEN multi[k] ELSE in_comment
            stays     == IF v = "forgets" THEN None ELSE opened
        IN
        IF opened # None
        THEN [in_comment |->
                 IF ends_with(line, end)
                 THEN IF same_line
                      THEN IF v = "open_stays" THEN opened
                           ELSE IF v = "no_guard" \/ Len(line) >= Len(start) + Len(end)
                           THEN None ELSE stays
                      ELSE None
                 ELSE stays,
              kind |-> "comment"]
        ELSE match_multi_variant(line, multi, k + 1, opened, v)

match_multi_open_stays(line, multi, k, in_comment) ==
    match_multi_variant(line, multi, k, in_comment, "open_stays")

match_multi_forgets(line, multi, k, in_comment) ==
    match_multi_variant(line, multi, k, in_comment, "forgets")

match_multi_no_guard(line, multi, k, in_comment) ==
    match_multi_variant(line, multi, k, in_comment, "no_guard")

match_multi_no_skip(line, multi, k, in_comment) ==
    match_multi_variant(line, multi, k, in_comment, "no_skip")

match_multi_start_ignored(line, multi, k, in_comment) ==
    match_multi_variant(line, multi, k, in_comment, "start_ignored")

\* the loop over config.multi for one trimmed, non-empty line, from pair k on.
\* Returns the new in_comment and whether the line was counted as a comment
\* ("comment") or fell through all pairs ("next").
RECURSIVE match_multi(_, _, _, _)
match_multi(line, multi, k, in_comment) ==
    IF k > Len(multi) THEN [in_comment |-> in_comment, kind |-> "next"]
    ELSE
      LET start == multi[k][1]
          end   == multi[k][2]
      IN
      IF in_comment # None /\ in_comment # multi[k]
      THEN match_multi(line, multi, k + 1, in_comment)
      ELSE IF starts_with(line, start) /\ in_comment # None
      THEN [in_comment |-> None, kind |-> "comment"]
      ELSE
        LET same_line == starts_with(line, start)
            opened    == IF same_line THEN multi[k] ELSE in_comment
        IN
        IF opened # None
        THEN [in_comment |->
                 IF ends_with(line, end)
                 THEN IF same_line
                      THEN IF Len(line) >= Len(start) + Len(end)
                           THEN None ELSE opened
                      ELSE None
                 ELSE opened,
              kind |-> "comment"]
        ELSE match_multi(line, multi, k + 1, opened)

\* variant: a marker counts only when it is the whole line
match_single_whole(line, single) ==
    \E i \in 1..Len(single) : line = single[i]

\* the loop over config.single
match_single(line, single) ==
    \E i \in 1..Len(single) : starts_with(line, single[i])

\* variant: a line that opens and closes a pair is counted for both
classify_line_twice(st, raw, config) ==
    LET line == trim(raw) IN
    IF line = <<>> THEN [st EXCEPT !.blank = @ + 1]
    ELSE
      LET m == match_multi(line, config.multi, 1, st.in_comment) IN
      IF m.kind = "comment" /\ st.in_comment = None /\ m.in_comment = None
      THEN [st EXCEPT !.comment = @ + 2, !.in_comment = m.in_comment]
      ELSE IF m.kind = "comment" \/ match_single(line, config.single)
      THEN [st EXCEPT !.comment = @ + 1, !.in_comment = m.in_comment]
      ELSE [st EXCEPT !.code = @ + 1, !.in_comment = m.in_comment]

\* variant: inside an open pair a blank line is taken for a comment line
classify_line_open_first(st, raw, config) ==
    LET line == trim(raw) IN
    IF line = <<>> /\ st.in_comment # None THEN [st EXCEPT !.comment = @ + 1]
    ELSE IF line = <<>> THEN [st EXCEPT !.blank = @ + 1]
    ELSE
      LET m == match_multi(line, config.multi, 1, st.in_comment) IN
      IF m.kind = "comment" \/ match_single(line, config.single)
      THEN [st EXCEPT !.comment = @ + 1, !.in_comment = m.in_comment]
      ELSE [st EXCEPT !.code = @ + 1, !.in_comment = m.in_comment]

\* one iteration of the 'line loop: st = [blank, comment, code, in_comment]
classify_line(st, raw, config) ==
    LET line == trim(raw) IN
    IF line = <<>> THEN [st EXCEPT !.blank = @ + 1]
    ELSE
      LET m == match_multi(line, config.multi, 1, st.in_comment) IN
      IF m.kind = "comment"
      THEN [st EXCEPT !.comment = @ + 1, !.in_comment = m.in_comment]
      ELSE IF match_single(line, config.single)
      THEN [st EXCEPT !.comment = @ + 1, !.in_comment = m.in_comment]
      ELSE [st EXCEPT !.code = @ + 1, !.in_comment = m.in_comment]

RECURSIVE classify_from(_, _, _, _)
classify_from(st, ls, i, config) ==
    IF i > Len(ls) THEN st
    ELSE classify_from(classify_line(st, ls[i], config), ls, i + 1, config)

classify(content, config) ==
    classify_from([blank |-> 0, comment |-> 0, code |-> 0, in_comment |-> None],
                  lines(content), 1, config)

----------------------------------------------------------------------------
(* The directory the run walks: what path.metadata() and fs::read_to_string *)
(* answer for each path the walk can yield, in walk order.                  *)

Walk == <<
    \* a regular C file: one block comment and three code lines
    [name |-> "a.c", config |-> LangC, meta |-> "file", size |-> 100, read |-> "ok",
     content |-> <<"/", "*", " ", "x", " ", "*", "/", "\n",
                   "a", ";", "\n", "b", "\n", "c", "\n">>],
    \* a second C file: five code lines, two blank lines
    [name |-> "b.c", config |-> LangC, meta |-> "file", size |-> 50, read |-> "ok",
     content |-> <<"a", "\n", "b", "\n", "\n", "c", "\n", " ", "\n",
                   "d", "\n", "e">>],
    \* a Ruby file: a two-line =...= block, a comment, a code line
    [name |-> "c.rb", config |-> LangRuby, meta |-> "file", size |-> 9, read |-> "ok",
     content |-> <<"=", "\n", "=", "\n", "#", "d", "\n", "z", "\n">>],
    \* a file that is not valid UTF-8: read_to_string fails
    [name |-> "d.c", config |-> LangC, meta |-> "file", size |-> 7, read |-> "InvalidData",
     content |-> <<>>],
    \* a file that vanished after the walk: metadata fails
    [name |-> "e.json", config |-> LangJSON, meta |-> "NotFound", size |-> 0, read |-> "NotFound",
     content |-> <<>>],
    \* a directory whose name has a known extension
    [name |-> "f.py", config |-> LangPython, meta |-> "dir", size |-> 0, read |-> "Other",
     content |-> <<>>]
>>

Paths == 1..Len(Walk)

\* ParseResult of parser(path, config)
parser(path) ==
    LET f == Walk[path] IN
    IF f.meta = "dir" THEN [kind |-> "Invalid"]
    ELSE IF f.meta # "file" THEN [kind |-> "Err", err |-> f.meta, path |-> path]
    ELSE IF f.read # "ok" THEN [kind |-> "Err", err |-> f.read, path |-> path]
    ELSE LET c == classify(f.content, f.config) IN
         [kind |-> "Ok",
          p |-> [language |-> f.config.name, blank |-> c.blank,
                 comment |-> c.comment, code |-> c.code, size |-> f.size]]

\* parser over every path of the walk, computed once
parsed == [path \in Paths |-> parser(path)]

----------------------------------------------------------------------------
(* The shared queue: crossbeam_deque Worker::new_fifo and its Stealers *)

\* an entry of the queue: Work::Parse(path, config) or Work::Quit; the config
\* of a path is Walk[path].config
Parse(path) == [kind |-> "Parse", path |-> path]
Quit == [kind |-> "Quit", path |-> 0]
\* what `steal().success()` gives when there is nothing to take
NoWork == [kind |-> "None", path |-> 0]

\* push on a LIFO worker: the entry goes to the front
push_front(q, x) == <<x>> \o q

\* Worker::push on a FIFO worker: the entry goes to the back
push(q, x) == Append(q, x)

\* steal with the front entry handed out but left in the queue
steal_peek(q) ==
    IF q = <<>>
    THEN {[task |-> NoWork, queue |-> q]}
    ELSE {[task |-> Head(q), queue |-> q], [task |-> NoWork, queue |-> q]}

\* Stealer::steal followed by success(): the possible (task, queue after)
\* outcomes. Steal::Empty and Steal::Retry both give no task and leave the
\* queue as it was; Steal::Success takes the front entry.
steal(q) ==
    IF q = <<>>
    THEN {[task |-> NoWork, queue |-> q]}
    ELSE {[task |-> Head(q), queue |-> Tail(q)], [task |-> NoWork, queue |-> q]}

----------------------------------------------------------------------------
(* main: merge of one worker's data into `result` *)

\* a search that never finds the language
find_never(res, language) == 0

\* `result.iter().position(|item| item.language == d.language)`: 0 for None
RECURSIVE find_from(_, _, _)
find_from(res, language, i) ==
    IF i > Len(res) THEN 0
    ELSE IF res[i].language = language THEN i
    ELSE find_from(res, language, i + 1)

find(res, language) == find_from(res, language, 1)

\* merge_one with `=` for `+=` on size when the language is found
merge_one_assign(res, d) ==
    LET i == find(res, d.language) IN
    IF i # 0
    THEN [res EXCEPT ![i] = [language |-> @.language,
                             comment  |-> @.comment + d.comment,
                             blank    |-> @.blank + d.blank,
                             code     |-> @.code + d.code,
                             size     |-> d.size,
                             file     |-> @.file + 1]]
    ELSE Append(res, [language |-> d.language, comment |-> d.comment,
                      blank |-> d.blank, code |-> d.code, size |-> d.size,
                      file |-> 1])

\* merge_one with comment and blank added to each other's sum
merge_one_swapped(res, d) ==
    LET i == find(res, d.language) IN
    IF i # 0
    THEN [res EXCEPT ![i] = [language |-> @.language,
                             comment  |-> @.comment + d.blank,
                             blank    |-> @.blank + d.comment,
                             code     |-> @.code + d.code,
                             size     |-> @.size + d.size,
                             file     |-> @.file + 1]]
    ELSE Append(res, [language |-> d.language, comment |-> d.comment,
                      blank |-> d.blank, code |-> d.code, size |-> d.size,
                      file |-> 1])

\* merge_one with `file` left as it is when the language is found
merge_one_nofile(res, d) ==
    LET i == find(res, d.language) IN
    IF i # 0
    THEN [res EXCEPT ![i] = [language |-> @.language,
                             comment  |-> @.comment + d.comment,
                             blank    |-> @.blank + d.blank,
                             code     |-> @.code + d.code,
                             size     |-> @.size + d.size,
                             file     |-> @.file]]
    ELSE Append(res, [language |-> d.language, comment |-> d.comment,
                      blank |-> d.blank, code |-> d.code, size |-> d.size,
                      file |-> 1])

\* the body of `for d in data`
merge_one(res, d) ==
    LET i == find(res, d.language) IN
    IF i # 0
    THEN [res EXCEPT ![i] = [language |-> @.language,
                             comment  |-> @.comment + d.comment,
                             blank    |-> @.blank + d.blank,
                             code     |-> @.code + d.code,
                             size     |-> @.size + d.size,
                             file     |-> @.file + 1]]
    ELSE Append(res, [language |-> d.language, comment |-> d.comment,
                      blank |-> d.blank, code |-> d.code, size |-> d.size,
                      file |-> 1])

\* the loop stopped after the first FileCount of a list
merge_first(res, list) ==
    IF list = <<>> THEN res ELSE merge_one(res, list[1])

\* `for d in data { ... }`
RECURSIVE merge_from(_, _, _)
merge_from(res, list, i) ==
    IF i > Len(list) THEN res
    ELSE merge_from(merge_one(res, list[i]), list, i + 1)

merge(res, list) == merge_from(res, list, 1)

----------------------------------------------------------------------------
(* main: sort *)

LETTER == <<"A", "B", "C", "D", "E", "F", "G", "H", "I", "J", "K", "L", "M",
            "N", "O", "P", "Q", "R", "S", "T", "U", "V", "W", "X", "Y", "Z">>

\* index of the first character of s in LETTER, counted from 0; 0 otherwise
position(s) ==
    IF s # <<>> /\ \E i \in 1..Len(LETTER) : LETTER[i] = Head(s)
    THEN (CHOOSE i \in 1..Len(LETTER) : LETTER[i] = Head(s)) - 1
    ELSE 0

SortKeys == {"Language", "Code", "Comment", "Blank", "File", "Size"}

\* the comparator closure main passes to bubble_sort for each Sort value
call(key, a, b) ==
    CASE key = "Language" -> position(a.language) > position(b.language)
      [] key = "Code"     -> a.code > b.code
      [] key = "Comment"  -> a.comment > b.comment
      [] key = "Blank"    -> a.blank > b.blank
      [] key = "File"     -> a.file > b.file
      [] key = "Size"     -> a.size > b.size

swap(vec, x, y) == [vec EXCEPT ![x] = vec[y], ![y] = vec[x]]

\* the two nested loops of bubble_sort, at indices x <= y (counted from 1)
RECURSIVE bubble_from(_, _, _, _)
bubble_from(vec, key, x, y) ==
    IF x > Len(vec) THEN vec
    ELSE IF y > Len(vec) THEN bubble_from(vec, key, x + 1, x + 1)
    ELSE bubble_from(IF call(key, vec[x], vec[y]) THEN swap(vec, x, y) ELSE vec,
                     key, x, y + 1)

\* variant: one pass over neighbouring rows
RECURSIVE one_pass(_, _, _)
one_pass(vec, key, x) ==
    IF x >= Len(vec) THEN vec
    ELSE one_pass(IF call(key, vec[x], vec[x + 1]) THEN swap(vec, x, x + 1) ELSE vec,
                  key, x + 1)

bubble_sort_one_pass(vec, key) == one_pass(vec, key, 1)

bubble_sort(vec, key) == bubble_from(vec, key, 1, 1)

----------------------------------------------------------------------------
(* Output (src/src/output.rs) *)

\* #[derive(Default)] of Output
Output_default ==
    [data |-> <<>>, total_code |-> 0, total_comment |-> 0, total_blank |-> 0,
     total_file |-> 0, total_size |-> 0]

\* the fold of Output::new over the rows from index i on, p the running sums
\* variant: total_file is the number of rows
RECURSIVE fold_totals_rows(_, _, _)
fold_totals_rows(rows, i, p) ==
    IF i > Len(rows) THEN p
    ELSE fold_totals_rows(rows, i + 1,
             <<p[1] + rows[i].code, p[2] + rows[i].comment,
               p[3] + rows[i].blank, p[4] + 1, p[5] + rows[i].size>>)

RECURSIVE fold_totals(_, _, _)
fold_totals(rows, i, p) ==
    IF i > Len(rows) THEN p
    ELSE fold_totals(rows, i + 1,
                     <<p[1] + rows[i].code, p[2] + rows[i].comment,
                       p[3] + rows[i].blank, p[4] + rows[i].file,
                       p[5] + rows[i].size>>)

\* Output::new(data)
Output_new(rows) ==
    LET t == fold_totals(rows, 1, <<0, 0, 0, 0, 0>>) IN
    [data |-> rows, total_code |-> t[1], total_comment |-> t[2],
     total_blank |-> t[3], total_file |-> t[4], total_size |-> t[5]]

----------------------------------------------------------------------------
(* The state machine *)

Workers == 1..cpus

\* no file is being classified
NoParserCall ==
    /\ pconfig = LangJSON
    /\ pcontent = <<>>
    /\ pidx = 0
    /\ pst = [blank |-> 0, comment |-> 0, code |-> 0, in_comment |-> None]
    /\ pleft = None

\* no number is being formatted
NoFormatCall ==
    /\ fnum = 0
    /\ ftext = <<>>

\* the ascending sequence of the elements of a set of paths
RECURSIVE SeqOf(_)
SeqOf(S) ==
    IF S = {} THEN <<>>
    ELSE LET m == CHOOSE x \in S : \A y \in S : x <= y
         IN <<m>> \o SeqOf(S \ {m})

\* what the filtered walk can yield: the paths that pass the -e, -i and -ext
\* filters, in walk order
Trees == {SeqOf(S) : S \in {T \in SUBSET Paths : Cardinality(T) <= MaxTree}}

\* the errors the walk yields instead of an entry (main.rs:139-145), each at
\* its place in the walk: after the path `after` of Walk
WalkFailures == <<
    \* a directory that cannot be read: the error has an io error and a path
    [name |-> "gone", after |-> 1, io |-> TRUE, err |-> "NotFound"],
    \* an error without an io error
    [name |-> "loop", after |-> 4, io |-> FALSE, err |-> "Other"]
>>

Failures == 1..Len(WalkFailures)

\* the number of WorkItems of t the walk yields before it meets failure f
walk_pos(f, t) ==
    Cardinality({i \in 1..Len(t) : t[i] <= WalkFailures[f].after})

\* failure f is what the walk yields next once n WorkItems were yielded
walk_next(f, errs, t, n) ==
    /\ f \in errs
    /\ walk_pos(f, t) = n
    /\ \A g \in errs : walk_pos(g, t) = n => f <= g

\* the records on stderr after the closure's `Err(error) =>` arm
walk_err(log, f) ==
    IF WalkFailures[f].io
    THEN Append(log, [kind |-> WalkFailures[f].err, path |-> Len(Walk) + f])
    ELSE log

Init ==
    /\ cpus \in 1..MaxCpus
    /\ tree \in Trees
    /\ walkerrs \in SUBSET Failures
    /\ mpc = "run"
    /\ spawned = 0
    /\ pushed = 0
    /\ quits = 0
    /\ joined = 0
    /\ queue = <<>>
    /\ wpc = [w \in 1..cpus |-> "unspawned"]
    /\ work = [w \in 1..cpus |-> NoWork]
    /\ wresult = [w \in 1..cpus |-> <<>>]
    /\ stderr = <<>>
    /\ result = <<>>
    /\ sort = ""
    /\ data = <<>>
    /\ dequeued = [w \in 1..cpus |-> <<>>]
    /\ output = Output_default
    /\ NoParserCall
    /\ NoFormatCall

\* main, `for _ in 0..cpus { threads.push(thread::spawn(...)) }`
Spawn ==
    /\ mpc = "run"
    /\ spawned < cpus
    /\ spawned' = spawned + 1
    /\ wpc' = [wpc EXCEPT ![spawned + 1] = "steal"]
    /\ UNCHANGED <<pvars, fvars, output, dequeued, cpus, tree, walkerrs, mpc, pushed, quits, joined, queue, work,
                   wresult, stderr, result, sort, data>>

\* main, `for (path, config) in tree`: the walk yields an error; the closure
\* of filter_map reports it with err! if it has an io error and a path, and
\* returns None
WalkErr ==
    /\ mpc = "run"
    /\ spawned = cpus
    /\ \E f \in Failures :
          /\ walk_next(f, walkerrs, tree, pushed)
          /\ stderr' = walk_err(stderr, f)
          /\ walkerrs' = walkerrs \ {f}
    /\ UNCHANGED <<pvars, fvars, output, dequeued, cpus, tree, mpc, spawned, pushed, quits, joined,
                   queue, wpc, work, wresult, result, sort, data>>

\* main, the same arm of the closure when the eprintln! of err! cannot write to
\* stderr: it panics, the main thread unwinds out of the loop over `tree`; no
\* record is written, no Work::Quit is pushed, nothing is joined or printed
WalkErrPanic ==
    /\ mpc = "run"
    /\ spawned = cpus
    /\ \E f \in Failures :
          /\ walk_next(f, walkerrs, tree, pushed)
          /\ WalkFailures[f].io
    /\ mpc' = "panicked"
    /\ UNCHANGED <<pvars, fvars, output, dequeued, cpus, tree, walkerrs, stderr, spawned, pushed, quits,
                   joined, queue, wpc, work, wresult, result, sort, data>>

\* the `tree` iterator has returned None: the loop over it is over
walk_done == pushed = Len(tree) /\ walkerrs = {}

\* main, `for (path, config) in tree { work.push(Work::Parse(path, config)) }`
PushParse ==
    /\ mpc = "run"
    /\ spawned = cpus
    /\ pushed < Len(tree)
    /\ \A f \in walkerrs : walk_pos(f, tree) # pushed
    /\ queue' = push(queue, Parse(tree[pushed + 1]))
    /\ pushed' = pushed + 1
    /\ UNCHANGED <<pvars, fvars, output, dequeued, cpus, tree, walkerrs, mpc, spawned, quits, joined, wpc, work,
                   wresult, stderr, result, sort, data>>

\* one Work::Quit too few
quit_count_short == cpus - 1

\* the number of Work::Quit main pushes: `for _ in 0..cpus`
quit_count == cpus

\* main, `for _ in 0..cpus { work.push(Work::Quit) }`
PushQuit ==
    /\ mpc = "run"
    /\ spawned = cpus
    /\ walk_done
    /\ quits < quit_count
    /\ queue' = push(queue, Quit)
    /\ quits' = quits + 1
    /\ UNCHANGED <<pvars, fvars, output, dequeued, cpus, tree, walkerrs, mpc, spawned, pushed, joined, wpc, work,
                   wresult, stderr, result, sort, data>>

\* Queue::start, `let work = match self.0.steal().success() { ... }`
Steal(w) ==
    /\ wpc[w] = "steal"
    /\ \E o \in steal(queue) :
          /\ queue' = o.queue
          /\ work' = [work EXCEPT ![w] = o.task]
          /\ dequeued' = IF o.task = NoWork THEN dequeued
                         ELSE [dequeued EXCEPT ![w] = Append(@, o.task)]
    /\ wpc' = [wpc EXCEPT ![w] = "match"]
    /\ UNCHANGED <<pvars, fvars, output, cpus, tree, walkerrs, mpc, spawned, pushed, quits, joined,
                   wresult, stderr, result, sort, data>>

\* a failed parse pushed as an empty FileCount
on_parse_push_err(list, r) ==
    IF r.kind = "Ok" THEN Append(list, r.p)
    ELSE IF r.kind = "Err"
    THEN Append(list, [language |-> Walk[r.path].config.name, blank |-> 0,
                       comment |-> 0, code |-> 0, size |-> 0])
    ELSE list

\* the worker's `result` after `match parser(path, &config)`
on_parse(list, r) ==
    IF r.kind = "Ok" THEN Append(list, r.p) ELSE list

\* variant: a path that is not a regular file is reported as well
on_parse_err_invalid(log, r) ==
    IF r.kind = "Err" THEN Append(log, [kind |-> r.err, path |-> r.path])
    ELSE IF r.kind = "Invalid" THEN Append(log, [kind |-> "Other", path |-> 0])
    ELSE log

\* the records err! writes after `match parser(path, &config)`
on_parse_err(log, r) ==
    IF r.kind = "Err" THEN Append(log, [kind |-> r.err, path |-> r.path]) ELSE log

\* Queue::start, `None => continue`: steal() gave nothing
MatchNone(w) ==
    /\ wpc[w] = "match"
    /\ work[w].kind = "None"
    /\ wpc' = [wpc EXCEPT ![w] = "steal"]
    /\ UNCHANGED <<pvars, fvars, output, dequeued, cpus, tree, walkerrs, mpc, spawned, pushed, quits, joined, queue,
                   work, wresult, stderr, result, sort, data>>

\* Queue::start, `Work::Parse(path, config) => match parser(path, &config)`
MatchParse(w) ==
    /\ wpc[w] = "match"
    /\ work[w].kind = "Parse"
    /\ wresult' = [wresult EXCEPT ![w] = on_parse(@, parsed[work[w].path])]
    /\ stderr' = on_parse_err(stderr, parsed[work[w].path])
    /\ work' = [work EXCEPT ![w] = NoWork]
    /\ wpc' = [wpc EXCEPT ![w] = "steal"]
    /\ UNCHANGED <<pvars, fvars, output, dequeued, cpus, tree, walkerrs, mpc, spawned, pushed, quits, joined, queue,
                   result, sort, data>>

\* Queue::start, `Work::Quit => break`, and `result` is returned
MatchQuit(w) ==
    /\ wpc[w] = "match"
    /\ work[w].kind = "Quit"
    /\ work' = [work EXCEPT ![w] = NoWork]
    /\ wpc' = [wpc EXCEPT ![w] = "exited"]
    /\ UNCHANGED <<pvars, fvars, output, dequeued, cpus, tree, walkerrs, mpc, spawned, pushed, quits, joined, queue,
                   wresult, stderr, result, sort, data>>

\* Queue::start, the rest of one loop iteration after steal()
Match(w) == MatchNone(w) \/ MatchParse(w) \/ MatchQuit(w)

\* variant: the list of a worker is read without waiting for the worker
JoinOkNoWait ==
    /\ mpc = "run"
    /\ quits = quit_count
    /\ walk_done
    /\ joined < cpus
    /\ wpc[joined + 1] # "unspawned"
    /\ result' = merge(result, wresult[joined + 1])
    /\ joined' = joined + 1
    /\ UNCHANGED <<pvars, fvars, output, dequeued, cpus, tree, walkerrs, mpc, spawned, pushed, quits, queue, wpc, work,
                   wresult, stderr, sort, data>>

\* main, `for thread in threads`: thread.join() gives Ok(data), and the data
\* is merged into `result`
JoinOk ==
    /\ mpc = "run"
    /\ quits = quit_count
    /\ walk_done
    /\ joined < cpus
    /\ wpc[joined + 1] = "exited"
    /\ result' = merge(result, wresult[joined + 1])
    /\ joined' = joined + 1
    /\ UNCHANGED <<pvars, fvars, output, dequeued, cpus, tree, walkerrs, mpc, spawned, pushed, quits, queue, wpc, work,
                   wresult, stderr, sort, data>>

\* main, `let data = match sort { ... => bubble_sort(result, ...) }`
Sort ==
    /\ mpc = "run"
    /\ joined = cpus
    /\ \E key \in SortKeys :
          /\ sort' = key
          /\ data' = bubble_sort(result, key)
    /\ mpc' = "print"
    /\ UNCHANGED <<pvars, fvars, output, dequeued, cpus, tree, walkerrs, spawned, pushed, quits, joined, queue, wpc,
                   work, wresult, stderr, result>>

\* main, `match output { ... }`: the table is printed and main returns
Render ==
    /\ mpc = "print"
    /\ output' = Output_new(data)
    /\ mpc' = "done"
    /\ UNCHANGED <<pvars, fvars, dequeued, cpus, tree, walkerrs, spawned, pushed, quits, joined, queue, wpc,
                   work, wresult, stderr, result, sort, data>>

\* a worker thread panics while it handles a WorkItem (for instance the
\* eprintln! of err! fails, or a counter overflows in a debug build): the
\* thread unwinds and its `result` is lost
Panic(w) ==
    /\ wpc[w] = "match"
    /\ work[w].kind = "Parse"
    /\ wpc' = [wpc EXCEPT ![w] = "panicked"]
    /\ work' = [work EXCEPT ![w] = NoWork]
    /\ wresult' = [wresult EXCEPT ![w] = <<>>]
    /\ UNCHANGED <<pvars, fvars, output, dequeued, cpus, tree, walkerrs, mpc, spawned, pushed, quits, joined, queue,
                   stderr, result, sort, data>>

\* main, `for thread in threads`: thread.join() gives Err(err):
\* `err!("Thread exits abnormally", err); continue`.  err! is eprintln!,
\* which either writes the record, and the loop goes on to the next thread,
\* or fails to write to stderr and panics: the main thread unwinds out of the
\* loop, nothing more is merged, sorted or printed
JoinErr ==
    /\ mpc = "run"
    /\ quits = quit_count
    /\ walk_done
    /\ joined < cpus
    /\ wpc[joined + 1] = "panicked"
    /\ \/ /\ stderr' = Append(stderr, [kind |-> "Thread exits abnormally", path |-> 0])
          /\ joined' = joined + 1
          /\ mpc' = mpc
       \/ /\ mpc' = "panicked"
          /\ UNCHANGED <<stderr, joined>>
    /\ UNCHANGED <<pvars, fvars, output, dequeued, cpus, tree, walkerrs, spawned, pushed, quits, queue, wpc, work,
                   wresult, result, sort, data>>

Next ==
    \/ Spawn
    \/ WalkErr
    \/ PushParse
    \/ PushQuit
    \/ \E w \in Workers : Steal(w)
    \/ \E w \in Workers : Match(w)
    \/ JoinOk
    \/ Sort
    \/ Render

Spec == Init /\ [][Next]_vars

\* the run when threads may panic: a worker while it handles a WorkItem, main
\* when an err! of its own cannot write to stderr
NextCrash ==
    \/ Next
    \/ WalkErrPanic
    \/ \E w \in Workers : Panic(w)
    \/ JoinErr

SpecCrash == Init /\ [][NextCrash]_vars

\* a steal() that succeeds
Take(w) == Steal(w) /\ work'[w] # NoWork

\* the main thread's next step
Main == Spawn \/ WalkErr \/ PushParse \/ PushQuit \/ JoinOk \/ Sort \/ Render

\* Every thread keeps being scheduled. steal() answers Retry only when it
\* lost a race against another queue operation, so a worker that keeps
\* calling it on a non-empty queue eventually succeeds.
Fairness ==
    /\ WF_vars(Main)
    /\ \A w \in 1..MaxCpus : WF_vars(w \in Workers /\ Match(w))
    /\ \A w \in 1..MaxCpus : SF_vars(w \in Workers /\ Take(w))

SpecFair == Init /\ [][Next]_vars /\ Fairness

----------------------------------------------------------------------------
(* The merge and sort on their own: main from the moment every worker has   *)
(* returned, with the workers' lists drawn from a set of FileCounts          *)

\* largest number of FileCounts over all worker lists
MaxMerge == 3

NameC == <<"C">>
NameRuby == <<"R", "u", "b", "y">>
NameRust == <<"R", "u", "s", "t">>

FileCounts == {
    [language |-> NameC,    code |-> 3, comment |-> 1, blank |-> 0, size |-> 100],
    [language |-> NameC,    code |-> 5, comment |-> 0, blank |-> 2, size |-> 50],
    [language |-> NameRuby, code |-> 1, comment |-> 3, blank |-> 0, size |-> 9],
    [language |-> NameRust, code |-> 3, comment |-> 2, blank |-> 4, size |-> 100],
    [language |-> NameRust, code |-> 0, comment |-> 0, blank |-> 1, size |-> 1]
}

\* the sequences over S of length at most n
RECURSIVE SeqsUpTo(_, _)
SeqsUpTo(S, n) ==
    IF n = 0 THEN {<<>>}
    ELSE LET shorter == SeqsUpTo(S, n - 1)
         IN shorter \cup {Append(q, x) : q \in {r \in shorter : Len(r) = n - 1}, x \in S}

\* the ways to cut a list of length n into c consecutive pieces: the end
\* index of each piece
Cuts(n, c) ==
    {e \in [1..c -> 0..n] : e[c] = n /\ \A w \in 1..c - 1 : e[w] <= e[w + 1]}

\* the pieces of list q cut at the end indices e
Pieces(q, e) ==
    [w \in DOMAIN e |-> SubSeq(q, (IF w = 1 THEN 0 ELSE e[w - 1]) + 1, e[w])]

InitMerge ==
    /\ cpus \in 1..MaxCpus
    /\ tree = <<>>
    /\ walkerrs = {}
    /\ mpc = "run"
    /\ spawned = cpus
    /\ pushed = 0
    /\ quits = quit_count
    /\ joined = 0
    /\ queue = <<>>
    /\ wpc = [w \in 1..cpus |-> "exited"]
    /\ work = [w \in 1..cpus |-> NoWork]
    /\ \E q \in SeqsUpTo(FileCounts, MaxMerge) :
          \E e \in Cuts(Len(q), cpus) : wresult = Pieces(q, e)
    /\ stderr = <<>>
    /\ result = <<>>
    /\ sort = ""
    /\ data = <<>>
    /\ dequeued = [w \in 1..cpus |-> <<>>]
    /\ output = Output_default
    /\ NoParserCall
    /\ NoFormatCall

NextMerge ==
    \/ JoinOk
    \/ Sort
    \/ Render

SpecMerge == InitMerge /\ [][NextMerge]_vars

----------------------------------------------------------------------------
(* parser on its own: one call, with the file's language and text drawn     *)
(* from the sets below                                                      *)

\* largest number of lines of a drawn text
MaxLines == 3

LangR == [name |-> <<"R">>, single |-> << <<"#">> >>, multi |-> <<>>]

\* raw lines of a C file
RawLinesC == {
    <<>>,
    <<" ", "\f">>,
    <<"/", "*", " ", "c", " ", "*", "/">>,
    <<"/", "*", " ", "s">>,
    <<"\f", "m">>,
    <<"e", " ", "*", "/">>,
    <<"/", "*", "/">>,
    <<"/", "/", " ", "c">>,
    <<"x", ";">>
}

\* raw lines of a Ruby file
RawLinesRuby == {
    <<>>,
    <<"=">>,
    <<"=", "b", "e", "g", "i", "n">>,
    <<"=", "e", "n", "d">>,
    <<"=", "b", "=">>,
    <<"e", " ", "=">>,
    <<"#", " ", "c">>,
    <<"x">>
}

\* raw lines of a Python file
RawLinesPython == {
    <<>>,
    <<"'", "'", "'">>,
    <<"'", "'", "'", "d", "'", "'", "'">>,
    <<"'", "'", "'", "d">>,
    <<"d", "'", "'", "'">>,
    <<"\"", "\"", "\"">>,
    <<"\"", "\"", "\"", "d">>,
    <<"#", " ", "c">>,
    <<"x">>
}

\* raw lines of an R file
RawLinesR == {
    <<>>,
    <<"\t">>,
    <<"#", " ", "c", "o", "m", "m", "e", "n", "t">>,
    <<" ", " ", "#", " ", "h", "e", "l", "l", "o", " ", " ">>,
    <<"x", " ", "=", " ", "1">>,
    <<"y", " ", "=", " ", "2">>
}

\* whole files: the six-line R file "", "# comment", "x = 1", "", "# another",
\* "y = 2"; the C block comment over three lines, without a final newline; a
\* C file with "\r\n" line ends
ExampleR == <<"\n", "#", " ", "c", "o", "m", "m", "e", "n", "t", "\n", "x", " ", "=", " ", "1", "\n", "\n", "#", " ", "a", "n", "o", "t", "h", "e", "r", "\n", "y", " ", "=", " ", "2">>

ExampleC == <<"/", "*", " ", "s", "t", "a", "r", "t", "\n", "m", "i", "d", "d", "l", "e", "\n", "e", "n", "d", " ", "*", "/">>

ExampleCRLF == <<"/", "*", " ", "c", "o", "m", "m", "e", "n", "t", " ", "*", "/", "\r", "\n", "x">>

Configs == {LangC, LangRuby, LangPython, LangR}

RawLines(config) ==
    CASE config = LangC      -> RawLinesC
      [] config = LangRuby   -> RawLinesRuby
      [] config = LangPython -> RawLinesPython
      [] config = LangR      -> RawLinesR

Examples(config) ==
    CASE config = LangC -> {ExampleC, ExampleCRLF}
      [] config = LangR -> {ExampleR}
      [] OTHER          -> {}

\* the text of a file whose lines are ls, each ended by "\n"
RECURSIVE Text(_)
Text(ls) ==
    IF ls = <<>> THEN <<>> ELSE Head(ls) \o <<"\n">> \o Text(Tail(ls))

Contents(config) ==
    {Text(ls) : ls \in SeqsUpTo(RawLines(config), MaxLines)} \cup Examples(config)

\* the main thread and the workers play no part in a single parser call
NoRun ==
    /\ cpus = 1
    /\ tree = <<>>
    /\ walkerrs = {}
    /\ mpc = "run"
    /\ spawned = 0
    /\ pushed = 0
    /\ quits = 0
    /\ joined = 0
    /\ queue = <<>>
    /\ wpc = [w \in 1..cpus |-> "unspawned"]
    /\ work = [w \in 1..cpus |-> NoWork]
    /\ wresult = [w \in 1..cpus |-> <<>>]
    /\ stderr = <<>>
    /\ result = <<>>
    /\ sort = ""
    /\ data = <<>>
    /\ dequeued = [w \in 1..cpus |-> <<>>]
    /\ output = Output_default

mainvars == <<cpus, tree, walkerrs, mpc, spawned, pushed, quits, joined, queue, wpc, work,
              wresult, stderr, result, sort, data, dequeued, output>>

\* parser after fs::read_to_string: the counters are 0 and in_comment is None
InitParser ==
    /\ NoRun
    /\ NoFormatCall
    /\ pconfig \in Configs
    /\ pcontent \in Contents(pconfig)
    /\ pidx = 0
    /\ pst = [blank |-> 0, comment |-> 0, code |-> 0, in_comment |-> None]
    /\ pleft = None

\* parser, one iteration of `'line: for line in content.lines()`
ParseLine ==
    /\ pidx < Len(lines(pcontent))
    /\ pst' = classify_line(pst, lines(pcontent)[pidx + 1], pconfig)
    /\ pidx' = pidx + 1
    /\ UNCHANGED <<mainvars, fvars, pconfig, pcontent, pleft>>

\* the lines of the files a worker is handed after another file
FollowLines(config) ==
    CASE config = LangC      -> {<<<<"e", " ", "*", "/">>, <<"x", ";">>>>, <<<<"\f", "m">>>>, <<<<"/", "*", " ", "s">>, <<"\f", "m">>>>}
      [] config = LangRuby   -> {<<<<"=", "e", "n", "d">>, <<"x">>>>, <<<<"x">>>>}
      [] config = LangPython -> {<<<<"d", "'", "'", "'">>, <<"x">>>>, <<<<"\"", "\"", "\"", "d">>, <<"x">>>>, <<<<"#", " ", "c">>>>}
      [] config = LangR      -> {<<<<"#", " ", "c", "o", "m", "m", "e", "n", "t">>, <<"x", " ", "=", " ", "1">>>>}

FollowUps(config) == {Text(ls) : ls \in FollowLines(config)}

\* variant: in_comment is kept from the call before
ParserCallKeeps ==
    /\ pidx = Len(lines(pcontent))
    /\ pconfig' \in Configs
    /\ pcontent' \in FollowUps(pconfig')
    /\ pidx' = 0
    /\ pst' = [blank |-> 0, comment |-> 0, code |-> 0, in_comment |-> pst.in_comment]
    /\ pleft' = pst.in_comment
    /\ UNCHANGED <<mainvars, fvars>>

\* Queue::start, the next Work::Parse of the same worker: parser has returned
\* and is called again, for another file; its locals are created anew
ParserCall ==
    /\ pidx = Len(lines(pcontent))
    /\ pconfig' \in Configs
    /\ pcontent' \in FollowUps(pconfig')
    /\ pidx' = 0
    /\ pst' = [blank |-> 0, comment |-> 0, code |-> 0, in_comment |-> None]
    /\ pleft' = pst.in_comment
    /\ UNCHANGED <<mainvars, fvars>>

NextParser == ParseLine \/ ParserCall

SpecParser == InitParser /\ [][NextParser]_vars

----------------------------------------------------------------------------
(* format_number on its own: one call, with the number drawn from Numbers *)

Digits == <<"0", "1", "2", "3", "4", "5", "6", "7", "8", "9">>

\* i32/u64 to_string of a non-negative number
RECURSIVE to_string(_)
to_string(n) ==
    IF n < 10 THEN <<Digits[n + 1]>>
    ELSE Append(to_string(n \div 10), Digits[(n % 10) + 1])

\* Iterator::rev, Vec::reverse
rev(s) == [i \in 1..Len(s) |-> s[Len(s) - i + 1]]

\* the loop over text.chars().rev().enumerate(), from index i (0-based) on
RECURSIVE push_grouped(_, _, _)
push_grouped(chars, i, vec) ==
    IF i >= Len(chars) THEN vec
    ELSE LET sep == IF i # 0 /\ i % 3 = 0 THEN Append(vec, ",") ELSE vec
         IN push_grouped(chars, i + 1, Append(sep, chars[i + 1]))

\* variant: the digits are grouped from the left
format_number_from_left(num) == push_grouped(to_string(num), 0, <<>>)

format_number(num) == rev(push_grouped(rev(to_string(num)), 0, <<>>))

\* every number up to MaxNum is formatted
MaxNum == 120

\* the numbers of test_format_number, the powers of ten around a new group,
\* and i32::MAX
Numbers ==
    0..MaxNum \cup {999, 1000, 1001, 9999, 12345, 100000, 999999, 1000000,
                    1234567, 999999999, 1000000000, 2147483647}

InitFormat ==
    /\ NoRun
    /\ NoParserCall
    /\ fnum \in Numbers
    /\ ftext = <<>>

\* a call of format_number(fnum)
FormatNumber ==
    /\ ftext = <<>>
    /\ ftext' = format_number(fnum)
    /\ UNCHANGED <<mainvars, pvars, fnum>>

NextFormat == FormatNumber

SpecFormat == InitFormat /\ [][NextFormat]_vars

----------------------------------------------------------------------------
(* Properties of the scheduler *)

\* the paths of the WorkItems pushed so far
PushedPaths == {tree[i] : i \in 1..pushed}

\* how often entry e occurs in sequence q
Occurrences(q, e) == Cardinality({i \in DOMAIN q : q[i] = e})

\* how often steal() has handed entry e to any worker
DequeueCount(e) ==
    Cardinality({wi \in UNION {{w} \X DOMAIN dequeued[w] : w \in Workers} :
                    dequeued[wi[1]][wi[2]] = e})

AllExited == \A w \in Workers : wpc[w] = "exited"

\* the FileCounts of the WorkItems of `tree` that parse, in tree order
RECURSIVE ok_counts(_, _)
ok_counts(t, i) ==
    IF i > Len(t) THEN <<>>
    ELSE LET r == parser(t[i]) IN
         (IF r.kind = "Ok" THEN <<r.p>> ELSE <<>>) \o ok_counts(t, i + 1)

\* the sum of the `file` counters of the rows of a table
RECURSIVE sum_file(_, _)
sum_file(res, i) ==
    IF i > Len(res) THEN 0 ELSE res[i].file + sum_file(res, i + 1)

Rows(res) == {res[i] : i \in 1..Len(res)}

\* C1: every pushed WorkItem is either still in the queue or has been handed
\* out by steal() exactly once (so to one worker only), never both and never
\* twice; nothing is handed out before it is pushed; and once all workers
\* have exited no WorkItem is left in the queue.
C1_DequeuedExactlyOnce ==
    /\ \A p \in Paths :
          Occurrences(queue, Parse(p)) + DequeueCount(Parse(p))
             = (IF p \in PushedPaths THEN 1 ELSE 0)
    /\ AllExited =>
          /\ pushed = Len(tree)
          /\ \A p \in PushedPaths :
                Occurrences(queue, Parse(p)) = 0 /\ DequeueCount(Parse(p)) = 1

\* three WorkItems were shared between two workers, and both have exited
C1_Witness ==
    /\ cpus = 2
    /\ Len(tree) = 3
    /\ AllExited
    /\ \A w \in Workers : \E i \in DOMAIN dequeued[w] : dequeued[w][i].kind = "Parse"

\* C2: once every worker is joined, the `file` counters of the table add up
\* to the number of WorkItems whose parse returned a FileCount; the sorted
\* rows handed to the printer add up to the same number.
C2_FilesAccounted ==
    /\ joined = cpus => sum_file(result, 1) = Len(ok_counts(tree, 1))
    /\ mpc \in {"print", "done"} => sum_file(data, 1) = Len(ok_counts(tree, 1))

\* a completed run of two workers over two files that parse and one that fails
C2_Witness ==
    /\ mpc = "done"
    /\ cpus = 2
    /\ Len(tree) = 3
    /\ sum_file(data, 1) = 2
    /\ Len(stderr) = 1
    /\ \A w \in Workers : wresult[w] # <<>>

\* C3: for every worker count and every interleaving, the table after the
\* last join holds the rows a single worker produces, which merges the
\* FileCounts in queue order: the same names with the same code, comment,
\* blank, size and file.
C3_WorkerCountInvariant ==
    joined = cpus =>
       /\ Rows(result) = Rows(merge(<<>>, ok_counts(tree, 1)))
       /\ Len(result) = Len(merge(<<>>, ok_counts(tree, 1)))
       /\ cpus = 1 => result = merge(<<>>, ok_counts(tree, 1))

\* two workers merged the three files that parse in an order a single worker
\* cannot produce: the second worker's list holds the first file
C3_Witness ==
    /\ joined = cpus
    /\ cpus = 2
    /\ tree = <<1, 2, 3>>
    /\ Len(wresult[1]) = 2
    /\ wresult[2] = <<parser(1).p>>

\* C5: under fair scheduling, for every number of WorkItems and of workers,
\* the producer finishes pushing the WorkItems and one token per worker,
\* after which every worker exits its loop and every join returns.
C5_WorkersTerminate ==
    /\ <>(pushed = Len(tree) /\ quits = cpus)
    /\ (pushed = Len(tree) /\ quits = cpus) ~> (AllExited /\ joined = cpus)

\* every worker has exited and is joined, in a run with no WorkItem at all
C5_Witness ==
    /\ tree = <<>>
    /\ cpus = 2
    /\ AllExited
    /\ joined = cpus

\* C6: a worker leaves its loop only in the step that handles a token; when a
\* steal() hands a token to a worker, every WorkItem has been pushed and none
\* is left in the queue; a steal() that returned nothing sends the worker
\* back to steal().
C6_NoExitBeforeWorkDone ==
    [][\A w \in Workers :
         /\ (wpc[w] # "exited" /\ wpc'[w] = "exited") => work[w] = Quit
         /\ (work'[w] = Quit) =>
               /\ pushed = Len(tree)
               /\ \A i \in DOMAIN queue : queue[i].kind # "Parse"
               /\ \A p \in Paths : DequeueCount(Parse(p))
                                        = (IF p \in PushedPaths THEN 1 ELSE 0)
         /\ (wpc[w] = "match" /\ work[w] = NoWork /\ wpc'[w] # "match") =>
               wpc'[w] = "steal"
      ]_vars

\* one worker has exited on its token after three WorkItems, while the other
\* has just got nothing from steal() and is still in its loop
C6_Witness ==
    /\ cpus = 2
    /\ Len(tree) = 3
    /\ \E w, v \in Workers :
          /\ wpc[w] = "exited"
          /\ wpc[v] = "match"
          /\ work[v] = NoWork
          /\ dequeued[v] # <<>>

\* the parse of the WorkItem worker w is handling fails
HandlesFailure(w) ==
    /\ wpc[w] = "match"
    /\ work[w].kind = "Parse"
    /\ parser(work[w].path).kind = "Err"

\* C7: the step in which a worker handles a WorkItem whose parse fails writes
\* one error record for that path, changes no worker's list and no row of
\* the table, and sends the worker back to steal().
C7_ReadErrorIsLocal ==
    [][\A w \in Workers :
         (HandlesFailure(w) /\ wpc'[w] # wpc[w]) =>
            /\ stderr' = Append(stderr, [kind |-> parser(work[w].path).err,
                                         path |-> work[w].path])
            /\ wresult' = wresult
            /\ result' = result
            /\ wpc'[w] = "steal"
      ]_vars

\* a worker that holds a FileCount has reported a failed file and is back at
\* steal(), and the other worker holds a FileCount too
C7_Witness ==
    /\ cpus = 2
    /\ Len(stderr) = 1
    /\ \E w \in Workers :
          /\ wpc[w] = "steal"
          /\ Len(dequeued[w]) = 2
          /\ dequeued[w][2].kind = "Parse"
          /\ parser(dequeued[w][2].path).kind = "Err"
          /\ Len(wresult[w]) = 1
    /\ \A w \in Workers : wresult[w] # <<>>

----------------------------------------------------------------------------
(* Properties of the merge *)

\* the lists of the workers joined so far, one after the other, as merged
RECURSIVE merged_input(_)
merged_input(n) ==
    IF n = 0 THEN <<>> ELSE merged_input(n - 1) \o wresult[n]

Perms(n) == {f \in [1..n -> 1..n] : \A i, j \in 1..n : f[i] = f[j] => i = j}

\* the FileCounts of list q whose language is name
OfName(q, name) == {i \in DOMAIN q : q[i].language = name}

\* the sum of f over a finite set of indices
RECURSIVE SumOver(_, _, _)
SumOver(I, q, field) ==
    IF I = {} THEN 0
    ELSE LET i == CHOOSE x \in I : TRUE
         IN q[i][field] + SumOver(I \ {i}, q, field)

\* C4: the table main has built from the lists joined so far holds the same
\* rows as a merge of the same FileCounts in any other order, whatever the
\* split into worker lists.
C4_MergeOrderIndependent ==
    LET flat == merged_input(joined) IN
    \A f \in Perms(Len(flat)) :
       LET other == merge(<<>>, [i \in 1..Len(flat) |-> flat[f[i]]]) IN
       /\ Rows(other) = Rows(result)
       /\ Len(other) = Len(result)

\* three FileCounts of two languages, split over two workers with the two
\* files of one language in different lists, have been merged
C4_Witness ==
    /\ cpus = 2
    /\ joined = 2
    /\ Len(wresult[1]) = 2
    /\ Len(wresult[2]) = 1
    /\ wresult[1][1].language = wresult[2][1].language
    /\ wresult[1][1] # wresult[2][1]
    /\ wresult[1][2].language # wresult[1][1].language
    /\ Len(result) = 2

\* C9: the table holds one row per language name among the FileCounts merged
\* so far, no two rows share a name, no row has a name that was not merged,
\* and each row's `file` is the number of FileCounts merged under its name.
C9_OneRowPerLanguage ==
    LET flat == merged_input(joined) IN
    /\ \A i, j \in DOMAIN result : result[i].language = result[j].language => i = j
    /\ {result[i].language : i \in DOMAIN result} = {flat[i].language : i \in DOMAIN flat}
    /\ \A i \in DOMAIN result :
          result[i].file = Cardinality(OfName(flat, result[i].language))

\* three FileCounts, two of them of one language, have been merged into two
\* rows
C9_Witness ==
    /\ joined = cpus
    /\ Len(merged_input(joined)) = 3
    /\ Len(result) = 2
    /\ \E i \in DOMAIN result : result[i].file = 2

\* C10: each row's code, comment, blank and size are the sums of that field
\* over the FileCounts merged under the row's name; merging
\* (code 3, comment 1, blank 0, size 100) and (code 5, comment 0, blank 2,
\* size 50) of one language gives the single row code 8, comment 1, blank 2,
\* size 150, file 2.
C10_FieldSums ==
    LET flat == merged_input(joined) IN
    /\ \A name \in {flat[i].language : i \in DOMAIN flat} :
          \E i \in DOMAIN result :
             /\ result[i].language = name
             /\ \A field \in {"code", "comment", "blank", "size"} :
                   result[i][field] = SumOver(OfName(flat, name), flat, field)
    /\ (/\ Len(flat) = 2
        /\ {flat[1], flat[2]} =
             {[language |-> NameC, code |-> 3, comment |-> 1, blank |-> 0, size |-> 100],
              [language |-> NameC, code |-> 5, comment |-> 0, blank |-> 2, size |-> 50]})
       => result = <<[language |-> NameC, code |-> 8, comment |-> 1, blank |-> 2,
                      size |-> 150, file |-> 2]>>

\* the two FileCounts of the example have been merged, one from each worker
C10_Witness ==
    /\ cpus = 2
    /\ joined = 2
    /\ wresult[1] = <<[language |-> NameC, code |-> 3, comment |-> 1, blank |-> 0, size |-> 100]>>
    /\ wresult[2] = <<[language |-> NameC, code |-> 5, comment |-> 0, blank |-> 2, size |-> 50]>>
    /\ Len(result) = 1

----------------------------------------------------------------------------
(* Properties of a run in which worker threads panic *)

\* the workers whose join has reported a panic
CrashReported == {w \in Workers : w <= joined /\ wpc[w] = "panicked"}

\* C8: a worker thread that terminates abnormally is fatal to the run: once a
\* join has reported a worker's panic, main never sorts or renders a table.
C8_CrashIsFatal ==
    CrashReported # {} => mpc \notin {"print", "done"}

----------------------------------------------------------------------------
(* Properties of the sort and of Output *)

\* the value of a row under a numeric sort key
KeyOf(row, key) ==
    CASE key = "Code"    -> row.code
      [] key = "Comment" -> row.comment
      [] key = "Blank"   -> row.blank
      [] key = "File"    -> row.file
      [] key = "Size"    -> row.size

\* C11: the rows handed to the renderer are in descending order of the sort
\* key for code, comment, blank, file and size (each row's key is at least
\* the next row's), and in ascending order of the name's position for the
\* language key.
C11_SortedByKey ==
    mpc \in {"print", "done"} =>
       \A i \in 1..Len(data) - 1 :
          IF sort = "Language"
          THEN position(data[i].language) <= position(data[i + 1].language)
          ELSE KeyOf(data[i], sort) >= KeyOf(data[i + 1], sort)

\* what bubble_sort does: ascending order under every key
SortedAscending ==
    mpc \in {"print", "done"} =>
       \A i \in 1..Len(data) - 1 :
          IF sort = "Language"
          THEN position(data[i].language) <= position(data[i + 1].language)
          ELSE KeyOf(data[i], sort) <= KeyOf(data[i + 1], sort)

----------------------------------------------------------------------------
(* Properties of parser, line by line *)

\* the lines of the text, the line the next iteration classifies, the line
\* the last iteration classified
Lines == lines(pcontent)

Cur == Lines[pidx + 1]

Last == Lines[pidx]

\* a step of the 'line loop
Stepped == pidx' = pidx + 1

IsBlank(raw) == \A i \in 1..Len(raw) : raw[i] \in Whitespace

\* C12: a line whose trimmed text is empty adds one to blank and changes
\* nothing else, in_comment included, whether or not a pair is open; while
\* every line so far was blank, blank is the number of lines and comment and
\* code are 0.
C12_BlankLineOnlyBlank ==
    [][Stepped =>
         /\ IsBlank(Cur) => pst' = [pst EXCEPT !.blank = @ + 1]
         /\ (\A i \in 1..pidx + 1 : IsBlank(Lines[i])) =>
                pst' = [blank |-> pidx + 1, comment |-> 0, code |-> 0,
                        in_comment |-> None]]_vars

\* a blank line was classified while a pair was open
C12_Witness ==
    /\ pidx >= 2
    /\ IsBlank(Last)
    /\ pst.in_comment # None
    /\ pst.blank >= 1

\* a text of MaxLines blank lines was classified
C12_AllBlank ==
    /\ pidx = MaxLines
    /\ \A i \in 1..pidx : IsBlank(Lines[i])
    /\ pst.blank = MaxLines

StartsPair(line, config) ==
    \E k \in 1..Len(config.multi) : starts_with(line, config.multi[k][1])

StartsSingle(line, config) ==
    \E i \in 1..Len(config.single) : starts_with(line, config.single[i])

\* C13: with no pair open and a trimmed line that starts with no pair's start
\* token, a non-blank line adds one to comment if it starts with a single
\* marker and one to code otherwise, and nothing else changes; the six-line
\* file "", "# comment", "x = 1", "", "# another", "y = 2" with marker "#"
\* and no pairs ends with blank 2, comment 2, code 2.
C13_SingleMarkerOrCode ==
    [][Stepped =>
         /\ (/\ ~IsBlank(Cur)
             /\ pst.in_comment = None
             /\ ~StartsPair(trim(Cur), pconfig)) =>
                pst' = IF StartsSingle(trim(Cur), pconfig)
                       THEN [pst EXCEPT !.comment = @ + 1]
                       ELSE [pst EXCEPT !.code = @ + 1]
         /\ (pconfig = LangR /\ pcontent = ExampleR /\ pidx' = Len(Lines)) =>
                pst' = [blank |-> 2, comment |-> 2, code |-> 2,
                        in_comment |-> None]]_vars

\* the six-line file was classified to its last line
C13_Witness ==
    /\ pconfig = LangR
    /\ pcontent = ExampleR
    /\ pidx = 6
    /\ pst.comment = 2
    /\ pst.code = 2

OneLineBlock(line, config) ==
    \E k \in 1..Len(config.multi) :
        /\ starts_with(line, config.multi[k][1])
        /\ ends_with(line, config.multi[k][2])
        /\ Len(line) >= Len(config.multi[k][1]) + Len(config.multi[k][2])

\* C14: with no pair open, a line that starts with a pair's start token, ends
\* with its end token and is at least len(start) + len(end) long adds exactly
\* one to comment and leaves in_comment None; "/* comment */" followed by "x"
\* gives comment 1 and code 1.
C14_OneLineBlockCountedOnce ==
    [][Stepped =>
         /\ (pst.in_comment = None /\ OneLineBlock(trim(Cur), pconfig)) =>
                pst' = [pst EXCEPT !.comment = @ + 1]
         /\ (pconfig = LangC /\ pcontent = ExampleCRLF /\ pidx' = Len(Lines)) =>
                pst' = [blank |-> 0, comment |-> 1, code |-> 1,
                        in_comment |-> None]]_vars

\* "/* comment */" was classified and the line after it was counted as code
C14_Witness ==
    /\ pconfig = LangC
    /\ pcontent = ExampleCRLF
    /\ pidx = 2
    /\ pst.comment = 1
    /\ pst.code = 1
    /\ pst.in_comment = None

\* the counters and in_comment before line i of the text is classified
PrefixState(i) ==
    classify_from([blank |-> 0, comment |-> 0, code |-> 0, in_comment |-> None],
                  SubSeq(Lines, 1, i - 1), 1, pconfig)

\* lines i..j are a block of the pair: line i starts with start and does not
\* end with end, the lines between are non-blank and neither start with start
\* nor end with end, line j ends with end
BlockAt(i, j, pair) ==
    /\ i < j
    /\ starts_with(trim(Lines[i]), pair[1])
    /\ ~ends_with(trim(Lines[i]), pair[2])
    /\ \A m \in i + 1..j - 1 :
           /\ ~IsBlank(Lines[m])
           /\ ~starts_with(trim(Lines[m]), pair[1])
           /\ ~ends_with(trim(Lines[m]), pair[2])
    /\ ends_with(trim(Lines[j]), pair[2])

\* C15: a block of a pair that starts at a line where no pair is open and
\* ends at the line just classified added one comment line per line of the
\* block (k + 2 for k lines between), no code line, and left no pair open;
\* "/* start", "middle", "end */" gives comment 3, code 0.
C15_BlockAllComment ==
    /\ \A i \in 1..pidx : \A k \in 1..Len(pconfig.multi) :
          (PrefixState(i).in_comment = None /\ BlockAt(i, pidx, pconfig.multi[k])) =>
              pst = [PrefixState(i) EXCEPT !.comment = @ + (pidx - i + 1)]
    /\ (pconfig = LangC /\ pcontent = ExampleC /\ pidx = Len(Lines)) =>
          pst = [blank |-> 0, comment |-> 3, code |-> 0, in_comment |-> None]

\* the three-line block was classified to its last line
C15_Witness ==
    /\ pconfig = LangC
    /\ pcontent = ExampleC
    /\ pidx = 3
    /\ BlockAt(1, 3, LangC.multi[1])
    /\ pst.comment = 3

----------------------------------------------------------------------------
(* Properties of Output::new *)

\* C16: once the table is handed to the renderer, its rows are the sorted
\* rows, unchanged and in the same order, and total_code, total_comment,
\* total_blank, total_file and total_size are the sums of that field over all
\* rows.
C16_TotalsAreSums ==
    mpc = "done" =>
        /\ output.data = data
        /\ output.total_code = SumOver(DOMAIN data, data, "code")
        /\ output.total_comment = SumOver(DOMAIN data, data, "comment")
        /\ output.total_blank = SumOver(DOMAIN data, data, "blank")
        /\ output.total_file = SumOver(DOMAIN data, data, "file")
        /\ output.total_size = SumOver(DOMAIN data, data, "size")

\* totals over two rows, one of them merged from two files
C16_Witness ==
    /\ mpc = "done"
    /\ Len(output.data) = 2
    /\ output.total_file = 3
    /\ output.total_code = data[1].code + data[2].code
    /\ output.total_code > data[1].code

----------------------------------------------------------------------------
(* Properties of format_number *)

NotComma(ch) == ch # ","

DigitOf(ch) == CHOOSE d \in 0..9 : Digits[d + 1] = ch

\* the number a sequence of digits denotes
RECURSIVE Value(_)
Value(s) ==
    IF s = <<>> THEN 0
    ELSE Value(SubSeq(s, 1, Len(s) - 1)) * 10 + DigitOf(s[Len(s)])

\* C17: for a non-negative n, format_number(n) is n's decimal digits with a
\* comma before every group of three digits counted from the right: no comma
\* first or last, no two commas side by side, and without the commas it is
\* the decimal string of n; 0 -> "0", 1 -> "1", 1000 -> "1,000",
\* 999999 -> "999,999", 1234567 -> "1,234,567".
C17_FormatNumberGroups ==
    ftext # <<>> =>
        LET digits == SelectSeq(ftext, NotComma) IN
        /\ ftext[1] # ","
        /\ ftext[Len(ftext)] # ","
        /\ \A i \in 1..Len(ftext) - 1 : ~(ftext[i] = "," /\ ftext[i + 1] = ",")
        /\ \A i \in 1..Len(ftext) :
              ftext[i] = "," <=> (Len(ftext) - i + 1) % 4 = 0
        /\ \A i \in 1..Len(digits) : \E d \in 0..9 : Digits[d + 1] = digits[i]
        /\ Len(digits) > 1 => digits[1] # "0"
        /\ Value(digits) = fnum
        /\ fnum = 0 => ftext = <<"0">>
        /\ fnum = 1 => ftext = <<"1">>
        /\ fnum = 1000 => ftext = <<"1", ",", "0", "0", "0">>
        /\ fnum = 999999 => ftext = <<"9", "9", "9", ",", "9", "9", "9">>
        /\ fnum = 1234567 => ftext = <<"1", ",", "2", "3", "4", ",", "5", "6", "7">>

\* 1234567 was formatted, with two commas
C17_Witness ==
    /\ fnum = 1234567
    /\ ftext = <<"1", ",", "2", "3", "4", ",", "5", "6", "7">>

----------------------------------------------------------------------------
(* Properties of parser while a pair is open *)

\* C18 as stated: with a pair carried over from an earlier line, every
\* non-blank line that does not end with the pair's end token, whatever it
\* starts with, adds one to comment and leaves the pair open.
C18_ClosedOnlyByEnd ==
    [][(/\ Stepped
        /\ pst.in_comment # None
        /\ ~IsBlank(Cur)
        /\ ~ends_with(trim(Cur), pst.in_comment[2])) =>
            pst' = [pst EXCEPT !.comment = @ + 1]]_vars

\* C18, amended: with a pair carried over from an earlier line, a non-blank
\* line that ends with the pair's end token or starts with the pair's start
\* token adds one to comment and closes the pair; every other non-blank line
\* adds one to comment and leaves the pair open.
C18_ClosedByEndOrStart ==
    [][(Stepped /\ pst.in_comment # None /\ ~IsBlank(Cur)) =>
            IF \/ ends_with(trim(Cur), pst.in_comment[2])
               \/ starts_with(trim(Cur), pst.in_comment[1])
            THEN pst' = [pst EXCEPT !.comment = @ + 1, !.in_comment = None]
            ELSE pst' = [pst EXCEPT !.comment = @ + 1]]_vars

\* a carried-over pair was closed by a line that starts with its start token
\* and does not end with its end token, and the line after it was classified
C18_Witness ==
    /\ pidx >= 3
    /\ PrefixState(pidx - 1).in_comment # None
    /\ starts_with(trim(Lines[pidx - 1]), PrefixState(pidx - 1).in_comment[1])
    /\ ~ends_with(trim(Lines[pidx - 1]), PrefixState(pidx - 1).in_comment[2])
    /\ PrefixState(pidx).in_comment = None
    /\ pst.code = 1

\* pair k is the pair a line opens when no pair is open: the first pair whose
\* start token the line starts with
Opens(line, config, k) ==
    /\ starts_with(line, config.multi[k][1])
    /\ \A j \in 1..k - 1 : ~starts_with(line, config.multi[j][1])

\* C19: with no pair open, a line that opens a pair and ends with its end
\* token but is shorter than len(start) + len(end) adds one to comment and
\* leaves that pair open; with a pair carried over, every line that ends with
\* its end token adds one to comment and closes it, whatever its length.
C19_TooShortStaysOpen ==
    [][Stepped =>
         /\ \A k \in 1..Len(pconfig.multi) :
               (/\ pst.in_comment = None
                /\ Opens(trim(Cur), pconfig, k)
                /\ ends_with(trim(Cur), pconfig.multi[k][2])
                /\ Len(trim(Cur)) < Len(pconfig.multi[k][1]) + Len(pconfig.multi[k][2])) =>
                   pst' = [pst EXCEPT !.comment = @ + 1,
                                      !.in_comment = pconfig.multi[k]]
         /\ (pst.in_comment # None /\ ends_with(trim(Cur), pst.in_comment[2])) =>
               pst' = [pst EXCEPT !.comment = @ + 1, !.in_comment = None]]_vars

\* a too-short line opened a pair that is still open after it
C19_Witness ==
    /\ pidx >= 1
    /\ PrefixState(pidx).in_comment = None
    /\ pst.in_comment # None
    /\ starts_with(trim(Last), pst.in_comment[1])
    /\ ends_with(trim(Last), pst.in_comment[2])
    /\ Len(trim(Last)) < Len(pst.in_comment[1]) + Len(pst.in_comment[2])
    /\ pst.comment = PrefixState(pidx).comment + 1

\* a carried-over pair was closed by a line shorter than len(start) + len(end)
C19_ShortClose ==
    /\ pidx >= 2
    /\ PrefixState(pidx).in_comment # None
    /\ Len(trim(Last)) < Len(PrefixState(pidx).in_comment[1])
                         + Len(PrefixState(pidx).in_comment[2])
    /\ ~starts_with(trim(Last), PrefixState(pidx).in_comment[1])
    /\ ends_with(trim(Last), PrefixState(pidx).in_comment[2])
    /\ pst.in_comment = None

\* the language with pair X alone: no other pair and no single marker
OnlyPair(config, X) == [config EXCEPT !.multi = <<X>>, !.single = <<>>]

\* the line starts with a single marker or with the start or end token of a
\* pair other than X, or ends with such a pair's token
ForeignToken(line, config, X) ==
    \/ StartsSingle(line, config)
    \/ \E k \in 1..Len(config.multi) :
          /\ config.multi[k] # X
          /\ \E t \in {config.multi[k][1], config.multi[k][2]} :
                starts_with(line, t) \/ ends_with(line, t)

\* C20: while a pair X is open, every non-blank line adds exactly one to
\* comment and nothing to code or blank; what becomes of in_comment is what
\* pair X alone makes of the line, so a line that carries a single marker or
\* a token of another pair, and neither starts with X's start token nor ends
\* with X's end token, leaves X open.
C20_OnlyOpenPairEvaluated ==
    [][(Stepped /\ pst.in_comment # None /\ ~IsBlank(Cur)) =>
         LET X == pst.in_comment IN
         /\ pst'.comment = pst.comment + 1
         /\ pst'.code = pst.code
         /\ pst'.blank = pst.blank
         /\ pst' = classify_line(pst, Cur, OnlyPair(pconfig, X))
         /\ (/\ ForeignToken(trim(Cur), pconfig, X)
             /\ ~starts_with(trim(Cur), X[1])
             /\ ~ends_with(trim(Cur), X[2])) =>
                pst'.in_comment = X]_vars

\* with the second pair of Python open, a line that starts with the first
\* pair's token was counted as comment and the second pair is still open
C20_Witness ==
    /\ pconfig = LangPython
    /\ pidx >= 2
    /\ PrefixState(pidx).in_comment = LangPython.multi[2]
    /\ starts_with(trim(Last), LangPython.multi[1][1])
    /\ pst.in_comment = LangPython.multi[2]
    /\ pst.comment = PrefixState(pidx).comment + 1
    /\ pst.code = 0

----------------------------------------------------------------------------
(* Properties of parser over the files of one worker *)

\* C21: whatever in_comment the call before left behind, a classification
\* starts with no pair open, and after each line the counters and in_comment
\* are those of classifying the text's lines so far from that state; so the
\* counts returned for a file do not depend on the file classified before.
C21_NoLeakBetweenFiles ==
    /\ pidx = 0 => pst.in_comment = None
    /\ pst = PrefixState(pidx + 1)
    /\ pidx = Len(Lines) => pst = classify(pcontent, pconfig)

\* the call before ended inside an unclosed pair, and this file, whose first
\* line ends with that pair's end token, was counted as two code lines
C21_Witness ==
    /\ pleft # None
    /\ pidx = Len(Lines)
    /\ pidx = 2
    /\ ends_with(trim(Lines[1]), pleft[2])
    /\ pst.code = 2
    /\ pst.comment = 0

----------------------------------------------------------------------------
(* Properties of the order of join, merge and sort *)

\* C22 as stated: no row of the totals table exists while a worker is still
\* running, and the sort has run only after every worker was joined.
C22_MergeAfterAllExited ==
    /\ result # <<>> => AllExited
    /\ sort # "" => joined = cpus

\* C22, amended: the totals table changes only in the step of the main
\* thread that joins the next worker, which has exited, and merges that
\* worker's list; workers joined later may still be running. The sort runs
\* after every worker has exited and been joined, on the table merged from
\* all lists, and the table does not change afterwards.
C22_MergeAtEachJoin ==
    [][/\ result' # result =>
             /\ mpc = "run"
             /\ joined' = joined + 1
             /\ wpc[joined'] = "exited"
             /\ result' = merge(result, wresult[joined'])
       /\ sort' # sort =>
             /\ joined = cpus
             /\ AllExited
             /\ result = merge(<<>>, merged_input(cpus))
             /\ result' = result]_vars

\* the first worker's list is merged while the second worker is still running
C22_Witness ==
    /\ cpus = 2
    /\ joined = 1
    /\ result # <<>>
    /\ wpc[2] \in {"steal", "match"}

----------------------------------------------------------------------------
(* Properties of the line counters *)

Counted(st) == st.blank + st.comment + st.code

\* C23: each line of the text adds one to exactly one of blank, comment and
\* code and nothing to the other two, so after the last line the three
\* counters add up to the number of lines; this holds as well for a line
\* that opens and closes a pair and for a line that starts with the start
\* token of the open pair.
C23_EachLineCountedOnce ==
    [][Stepped =>
         /\ \E f \in {"blank", "comment", "code"} :
               /\ pst'[f] = pst[f] + 1
               /\ \A g \in {"blank", "comment", "code"} \ {f} : pst'[g] = pst[g]
         /\ Counted(pst') = pidx'
         /\ pidx' <= Len(Lines)]_vars

\* a text of three lines was classified: the second line starts with the
\* start token of the open pair, the third opens and closes a pair
C23_Witness ==
    /\ pidx = 3
    /\ Len(Lines) = 3
    /\ PrefixState(2).in_comment # None
    /\ starts_with(trim(Lines[2]), PrefixState(2).in_comment[1])
    /\ PrefixState(3).in_comment = None
    /\ OneLineBlock(trim(Lines[3]), pconfig)
    /\ Counted(pst) = 3

----------------------------------------------------------------------------
(* Properties of the sorted table *)

\* the key bubble_sort compares for a row
SortKeyOf(row, key) ==
    IF key = "Language" THEN position(row.language) ELSE KeyOf(row, key)

\* C24: for the FileCounts the workers returned and the chosen sort key, the
\* sorted rows are the same whatever the order in which the FileCounts were
\* merged, rows with equal sort keys included.
C24_SortedRowsDeterministic ==
    mpc = "print" =>
        LET flat == merged_input(cpus) IN
        \A f \in Perms(Len(flat)) :
            bubble_sort(merge(<<>>, [i \in 1..Len(flat) |-> flat[f[i]]]), sort) = data

\* the same for tables in which no two rows have the same sort key
SortedRowsDeterministicWithoutTies ==
    (/\ mpc = "print"
     /\ \A i, j \in 1..Len(data) :
           i # j => SortKeyOf(data[i], sort) # SortKeyOf(data[j], sort)) =>
        LET flat == merged_input(cpus) IN
        \A f \in Perms(Len(flat)) :
            bubble_sort(merge(<<>>, [i \in 1..Len(flat) |-> flat[f[i]]]), sort) = data

\* C25: the sorted rows are the aggregated rows in another order, none lost,
\* duplicated or changed, and for no i < j does the comparator of the sort
\* key hold of (data[i], data[j]).
C25_SortOnlyReorders ==
    mpc = "print" =>
        /\ Len(data) = Len(result)
        /\ \E f \in Perms(Len(result)) : data = [i \in 1..Len(result) |-> result[f[i]]]
        /\ \A i, j \in 1..Len(data) : i < j => ~call(sort, data[i], data[j])

\* a table of three rows was sorted and the sort moved rows
C25_Witness ==
    /\ mpc = "print"
    /\ Len(result) = 3
    /\ data # result
    /\ data[3] = result[1]

----------------------------------------------------------------------------
(* Properties of the outcome of a WorkItem *)

\* worker w handles the WorkItem it holds in this step
Handles(w) ==
    /\ wpc[w] = "match"
    /\ work[w].kind = "Parse"
    /\ wpc'[w] # wpc[w]

\* what the file system answers for the path of the WorkItem
Answer(path) ==
    IF Walk[path].meta \notin {"file", "dir"} THEN "metadata fails"
    ELSE IF Walk[path].meta = "dir" THEN "not a regular file"
    ELSE IF Walk[path].read # "ok" THEN "read fails"
    ELSE "read"

\* C26: the step in which a worker handles a WorkItem does exactly one of
\* three things and sends the worker back to steal(): it appends one
\* FileCount to the worker's list and writes no error record (the file was
\* read); or it writes one error record for the path and leaves the list
\* unchanged (metadata or read failed); or, for a path that is not a regular
\* file, it leaves the list unchanged and writes no error record.
C26_OneOutcomePerWorkItem ==
    [][\A w \in Workers :
         Handles(w) =>
            LET a == Answer(work[w].path) IN
            /\ wpc'[w] = "steal"
            /\ \A v \in Workers \ {w} : wresult'[v] = wresult[v]
            /\ a = "read" =>
                  /\ Len(wresult'[w]) = Len(wresult[w]) + 1
                  /\ SubSeq(wresult'[w], 1, Len(wresult[w])) = wresult[w]
                  /\ wresult'[w][Len(wresult'[w])].language = Walk[work[w].path].config.name
                  /\ stderr' = stderr
            /\ a \in {"metadata fails", "read fails"} =>
                  /\ wresult'[w] = wresult[w]
                  /\ Len(stderr') = Len(stderr) + 1
                  /\ SubSeq(stderr', 1, Len(stderr)) = stderr
                  /\ stderr'[Len(stderr')].path = work[w].path
            /\ a = "not a regular file" =>
                  /\ wresult'[w] = wresult[w]
                  /\ stderr' = stderr
      ]_vars

\* one worker has handled a file that was read, a file whose read failed and
\* a directory, and is back at steal()
C26_Witness ==
    \E w \in Workers :
        /\ wpc[w] = "steal"
        /\ Len(dequeued[w]) = 3
        /\ \A i \in 1..3 : dequeued[w][i].kind = "Parse"
        /\ {Answer(dequeued[w][i].path) : i \in 1..3}
              = {"read", "read fails", "not a regular file"}
        /\ Len(wresult[w]) = 1
        /\ Len(stderr) = 1

====
